---- MODULE Spec2Model ----
(***************************************************************************)
(* Client-side synchronisation core of the Tokyo Anomaly Monitoring       *)
(* System: the anomaly list cache (TanStack Query data under the key      *)
(* ['anomalies']), the capture mutation with optimistic update and        *)
(* rollback (useCaptureAnomaly), the list fetch (fetchAnomalies), the      *)
(* in-memory server list (mockAnomalies) with its capture route, and the  *)
(* Server-Sent-Events subscription with reconnect (useAnomalyStream).     *)
(***************************************************************************)
EXTENDS Integers, Sequences, FiniteSets, TLC

VARIABLES
  store,                  \* query data under ANOMALIES_QUERY_KEY: [defined, list]
  fetch,                  \* the list query's fetch: [st, wrapped, data]
  cap,                    \* capture mutations: slot -> [pc, id, previousAnomalies, resp, toasts]
  toast,                  \* the notification the resolution in progress handed to showToast
  mockAnomalies,          \* the server's in-memory list
  isMounted,              \* effect closure flag of useAnomalyStream
  localEventSource,       \* effect closure: current channel (0 = null)
  localReconnectTimeout,  \* effect closure: last scheduled timer (0 = null)
  localReconnectAttempts, \* effect closure: attempts used
  eventSourceRef,         \* eventSourceRef.current (0 = null)
  reconnectTimeoutRef,    \* reconnectTimeoutRef.current (0 = null)
  reconnectAttemptsRef,   \* reconnectAttemptsRef.current
  isConnected,            \* React state isConnected
  channels,               \* EventSource instances created so far: seq of [closed]
  timers,                 \* ids of the setTimeout timers that are pending
  timerCount,             \* number of timers scheduled so far (the last timer id)
  confirmedIds,           \* history: ids whose capture the client saw confirmed
  pre,                    \* history: slot -> store just before the invocation
  dirty,                  \* history: slot -> some other writer acted during the in-flight window
  reconnectsInRun,        \* history: reconnects scheduled since the last handled open
  channelsInRun,          \* history: channels created since the last handled open
  disconnected,           \* history: disconnect() has been called
  last,                   \* history: the step just taken: [act, chan, msg, callback]
  call,                   \* an apiClient call: [pc, resp, timer, result]
  outbox,                 \* events the stream route has enqueued and the channel has not delivered
  delivered,              \* history: messages the channel delivered since the list fetch last wrote the store
  notified,               \* history: events handed to onThreatLevelChange in that time
  observed,               \* slot of the mutation the list's useMutation observer tracks (0 = none)
  notifications,          \* NotificationContainer: ids of the notifications held, oldest first
  maxNotifications,       \* NotificationContainer: the maxNotifications prop
  shown                   \* number of notifications created so far (the last id)

vars == <<store, fetch, cap, toast, mockAnomalies, isMounted, localEventSource,
          localReconnectTimeout, localReconnectAttempts, eventSourceRef,
          reconnectTimeoutRef, reconnectAttemptsRef, isConnected, channels,
          timers, timerCount, confirmedIds, pre, dirty,
          reconnectsInRun, channelsInRun, disconnected, last, call, outbox,
          delivered, notified, observed, notifications, maxNotifications, shown>>

captureVars == <<cap, toast, confirmedIds, pre, dirty, observed>>
serverVars == <<mockAnomalies>>
apiVars == <<call>>
pushVars == <<outbox>>
orderVars == <<delivered, notified>>
notifyVars == <<notifications, maxNotifications, shown>>
streamVars == <<isMounted, localEventSource, localReconnectTimeout,
                localReconnectAttempts, eventSourceRef, reconnectTimeoutRef,
                reconnectAttemptsRef, isConnected, channels, timers, timerCount,
                reconnectsInRun, channelsInRun, disconnected>>

----------------------------------------------------------------------------
(* Bounds of the model *)

MaxCaptures == 2
MaxChannels == 3
MaxTimers == 3
maxReconnectAttempts == 2

----------------------------------------------------------------------------
(* Domain types *)

ThreatLevel == {"low", "medium", "high", "critical"}

AnomalyStatus == {"active", "captured"}

Missing == "<missing>"

Anomaly(id, name, threatLevel, location, status) ==
  [id |-> id, name |-> name, threatLevel |-> threatLevel,
   location |-> location, status |-> status]

\* anomalySchema: every field present with its type, enums respected
anomalySchema(a) ==
  /\ a.id # Missing
  /\ a.name # Missing
  /\ a.threatLevel \in ThreatLevel
  /\ a.location # Missing
  /\ a.status \in AnomalyStatus

anomaliesArraySchema(list) == \A k \in DOMAIN list : anomalySchema(list[k])

\* the first entries of the server's mock list
initialMockAnomalies ==
  << Anomaly("1", "Kitsune", "high", "Shibuya District", "active"),
     Anomaly("2", "Tengu", "critical", "Mount Takao", "active") >>

\* server lists the model starts from: the prefixes of the mock list
InitialLists ==
  { SubSeq(initialMockAnomalies, 1, n) : n \in 0..Len(initialMockAnomalies) }

Ids == { initialMockAnomalies[k].id : k \in DOMAIN initialMockAnomalies }

NoAnomaly == Anomaly(Missing, Missing, Missing, Missing, Missing)

Undefined == [defined |-> FALSE, list |-> << >>]

Data(list) == [defined |-> TRUE, list |-> list]

HasId(list, id) == \E k \in DOMAIN list : list[k].id = id

IndexOf(list, id) == CHOOSE k \in DOMAIN list : list[k].id = id

\* the record with the given id in a list that holds it
RecordOf(list, id) == list[IndexOf(list, id)]

----------------------------------------------------------------------------
(* HTTP boundary: responses as the client's fetch() sees them *)

\* an HTTP response, or a transport failure (kind "abort" / "network")
Response(kind, status, json, success, anomaly, error) ==
  [kind |-> kind, status |-> status, json |-> json, success |-> success,
   anomaly |-> anomaly, error |-> error]

HttpErrorText(status) ==
  CASE status = 400 -> "HTTP Error: 400"
    [] status = 404 -> "HTTP Error: 404"
    [] status = 500 -> "HTTP Error: 500"
    [] status = 502 -> "HTTP Error: 502"
    [] OTHER -> "HTTP Error"

ApiError(message, status, code) ==
  [ok |-> FALSE, message |-> message, status |-> status, code |-> code,
   body |-> Response("none", 0, FALSE, Missing, NoAnomaly, Missing)]

\* variant of apiClient without the AbortError branch
apiClient_noTimeout(resp) ==
  IF resp.kind \in {"abort", "network"} THEN ApiError("Failed to fetch", 500, "UNKNOWN")
  ELSE IF ~(resp.status \in 200..299)
    THEN ApiError(IF resp.json /\ resp.error \notin {Missing, ""}
                    THEN resp.error ELSE HttpErrorText(resp.status),
                  resp.status, Missing)
  ELSE IF ~resp.json THEN ApiError("Unexpected token", 500, "UNKNOWN")
  ELSE [ok |-> TRUE, message |-> "", status |-> resp.status, code |-> Missing,
        body |-> resp]

\* variant of apiClient that ignores the error string of a non-2xx body
apiClient_generic(resp) ==
  IF resp.kind = "abort" THEN ApiError("Request timeout", 408, "TIMEOUT")
  ELSE IF resp.kind = "network" THEN ApiError("Failed to fetch", 500, "UNKNOWN")
  ELSE IF ~(resp.status \in 200..299)
    THEN ApiError(HttpErrorText(resp.status), resp.status, Missing)
  ELSE IF ~resp.json THEN ApiError("Unexpected token", 500, "UNKNOWN")
  ELSE [ok |-> TRUE, message |-> "", status |-> resp.status, code |-> Missing,
        body |-> resp]

\* apiClient: the resolved body, or the ApiError it throws
apiClient(resp) ==
  IF resp.kind = "abort" THEN ApiError("Request timeout", 408, "TIMEOUT")
  ELSE IF resp.kind = "network" THEN ApiError("Failed to fetch", 500, "UNKNOWN")
  ELSE IF ~(resp.status \in 200..299)
    THEN ApiError(IF resp.json /\ resp.error \notin {Missing, ""}
                    THEN resp.error ELSE HttpErrorText(resp.status),
                  resp.status, Missing)
  ELSE IF ~resp.json THEN ApiError("Unexpected token", 500, "UNKNOWN")
  ELSE [ok |-> TRUE, message |-> "", status |-> resp.status, code |-> Missing,
        body |-> resp]

\* captureAnomalyResponseSchema: the union of the success and the failure shape
captureAnomalyResponseSchema(body) ==
  \/ body.success = "true" /\ anomalySchema(body.anomaly)
  \/ body.success = "false" /\ body.error # Missing

\* variant of captureAnomalyApi that does not validate the body it received
captureAnomalyApi_unvalidated(resp) ==
  LET response == apiClient(resp) IN
  IF ~response.ok THEN response
  ELSE IF response.body.success # "true"
    THEN ApiError(response.body.error, 500, "CAPTURE_FAILED")
  ELSE response

\* captureAnomalyApi: [ok |-> TRUE, ...] when it resolves, [ok |-> FALSE, ...]
\* with the thrown error's message when it rejects
captureAnomalyApi(resp) ==
  LET response == apiClient(resp) IN
  IF ~response.ok THEN response
  ELSE IF ~captureAnomalyResponseSchema(response.body)
    THEN ApiError("ZodError", 0, Missing)
  ELSE IF response.body.success # "true"
    THEN ApiError(response.body.error, 500, "CAPTURE_FAILED")
  ELSE response

----------------------------------------------------------------------------
(* Server: the capture route over the in-memory list *)

\* variant of the route without the already-captured test
POST_recapture(list, id, shouldFail) ==
  IF ~HasId(list, id)
    THEN [list |-> list,
          resp |-> Response("http", 404, TRUE, "false", NoAnomaly, "Anomaly not found")]
  ELSE LET anomalyIndex == IndexOf(list, id)
           anomaly == list[anomalyIndex] IN
    IF shouldFail
      THEN [list |-> list,
            resp |-> Response("http", 500, TRUE, "false", NoAnomaly,
                              "Capture failed! Anomaly escaped during the capture attempt")]
    ELSE LET updated == [anomaly EXCEPT !.status = "captured"] IN
      [list |-> [list EXCEPT ![anomalyIndex] = updated],
       resp |-> Response("http", 200, TRUE, "true", updated, Missing)]

\* variant of the route that marks the anomaly captured before the failure test
POST_writeFirst(list, id, shouldFail) ==
  IF ~HasId(list, id)
    THEN [list |-> list,
          resp |-> Response("http", 404, TRUE, "false", NoAnomaly, "Anomaly not found")]
  ELSE LET anomalyIndex == IndexOf(list, id)
           anomaly == list[anomalyIndex]
           updated == [anomaly EXCEPT !.status = "captured"] IN
    IF anomaly.status = "captured"
      THEN [list |-> list,
            resp |-> Response("http", 400, TRUE, "false", NoAnomaly,
                              "Anomaly is already captured")]
    ELSE IF shouldFail
      THEN [list |-> [list EXCEPT ![anomalyIndex] = updated],
            resp |-> Response("http", 500, TRUE, "false", NoAnomaly,
                              "Capture failed! Anomaly escaped during the capture attempt")]
    ELSE [list |-> [list EXCEPT ![anomalyIndex] = updated],
          resp |-> Response("http", 200, TRUE, "true", updated, Missing)]

\* POST /api/anomalies/[id]/capture: [list |-> the list afterwards, resp |-> the response]
POST(list, id, shouldFail) ==
  IF ~HasId(list, id)
    THEN [list |-> list,
          resp |-> Response("http", 404, TRUE, "false", NoAnomaly, "Anomaly not found")]
  ELSE LET anomalyIndex == IndexOf(list, id)
           anomaly == list[anomalyIndex] IN
    IF anomaly.status = "captured"
      THEN [list |-> list,
            resp |-> Response("http", 400, TRUE, "false", NoAnomaly,
                              "Anomaly is already captured")]
    ELSE IF shouldFail
      THEN [list |-> list,
            resp |-> Response("http", 500, TRUE, "false", NoAnomaly,
                              "Capture failed! Anomaly escaped during the capture attempt")]
    ELSE LET updated == [anomaly EXCEPT !.status = "captured"] IN
      [list |-> [list EXCEPT ![anomalyIndex] = updated],
       resp |-> Response("http", 200, TRUE, "true", updated, Missing)]

\* outcomes of the capture call that do not come from the capture route: a
\* timeout, a transport failure, 2xx bodies {success: false, error} (one with
\* an empty error string), and a 2xx success body whose
\* anomaly is malformed
ForeignResponses ==
  { Response("abort", 0, FALSE, Missing, NoAnomaly, Missing),
    Response("network", 0, FALSE, Missing, NoAnomaly, Missing),
    Response("http", 200, TRUE, "false", NoAnomaly, "Validation failed"),
    Response("http", 200, TRUE, "false", NoAnomaly, ""),
    Response("http", 200, TRUE, "true",
             Anomaly("1", "Kitsune", "extreme", "Shibuya District", "captured"), Missing) }

NoResponse == Response("none", 0, FALSE, Missing, NoAnomaly, Missing)

----------------------------------------------------------------------------
(* Push messages as the channel delivers them *)

\* event.data: text that is JSON or not, with the fields the handler reads
Message(json, type, anomalyId, newThreatLevel) ==
  [json |-> json, type |-> type, anomalyId |-> anomalyId,
   newThreatLevel |-> newThreatLevel]

NoMessage == Message(FALSE, Missing, Missing, Missing)

\* threat level carried by the modelled events: a change for "1", none for "2"
EventLevels == {"critical"}

ValidMessages ==
  { Message(TRUE, "threat_level_change", id, l) : id \in Ids, l \in EventLevels }

MalformedMessages ==
  { Message(FALSE, Missing, Missing, Missing),
    Message(TRUE, "connected", Missing, Missing),
    Message(TRUE, "threat_level_change", "1", "extreme"),
    Message(TRUE, "threat_level_change", Missing, "low") }

Messages == ValidMessages \cup MalformedMessages

\* threatLevelChangeEventSchema
threatLevelChangeEventSchema(data) ==
  /\ data.type = "threat_level_change"
  /\ data.anomalyId # Missing
  /\ data.newThreatLevel \in ThreatLevel

----------------------------------------------------------------------------
(* History records *)

\* the step just taken: its kind, the channel and the message of a channel
\* callback, and whether onThreatLevelChange was invoked in it
Step(act, chan, msg, callback) ==
  [act |-> act, chan |-> chan, msg |-> msg, callback |-> callback]

Other == Step("other", 0, NoMessage, FALSE)

CapSlots == 1..MaxCaptures

InFlight(c) == c.pc \in {"pending", "responded"}

\* another writer acts: every capture in flight, except `own`, has been interleaved
Interleave(own) ==
  [j \in CapSlots |-> dirty[j] \/ (j # own /\ InFlight(cap[j]))]

----------------------------------------------------------------------------
(* The capture mutation: useCaptureAnomaly *)

NoToast == [type |-> Missing, message |-> Missing]

IdleCapture ==
  [pc |-> "idle", id |-> Missing, previousAnomalies |-> Undefined,
   resp |-> NoResponse, toasts |-> 0]

IdleFetch == [st |-> "idle", wrapped |-> FALSE, data |-> << >>]

\* the updater of onMutate's setQueryData
OptimisticUpdate(old, anomalyId) ==
  IF ~old.defined THEN old
  ELSE Data([k \in DOMAIN old.list |->
               IF old.list[k].id = anomalyId
                 THEN [old.list[k] EXCEPT !.status = "captured"]
                 ELSE old.list[k]])

\* queryClient.cancelQueries: an in-flight list fetch is dropped
cancelQueries(f) == IdleFetch

\* variant of onMutate that takes the snapshot after the optimistic write
onMutate_snapshotAfter(data, anomalyId) ==
  [context |-> [previousAnomalies |-> OptimisticUpdate(data, anomalyId)],
   data |-> OptimisticUpdate(data, anomalyId)]

\* onMutate: cancel, snapshot, optimistic write; returns the context
onMutate(data, anomalyId) ==
  [context |-> [previousAnomalies |-> data],
   data |-> OptimisticUpdate(data, anomalyId)]

\* variant of the rollback that keeps the optimistic data
Rollback_keep(data, context) == data

\* onError's rollback: the query data afterwards
Rollback(data, context) ==
  IF context.previousAnomalies.defined THEN context.previousAnomalies ELSE data

\* variant of the toast without the fallback text
ErrorToast_verbatim(error) == [type |-> "error", message |-> error.message]

\* onError's toast
ErrorToast(error) ==
  [type |-> "error",
   message |-> IF error.message \in {"", Missing}
                 THEN "Failed to capture anomaly" ELSE error.message]

\* onSuccess's toast
SuccessToast(data) ==
  IF data.body.success = "true" /\ data.body.anomaly # NoAnomaly
    THEN [type |-> "success", message |-> data.body.anomaly.name]
    ELSE NoToast

\* variant of the invalidation that starts no refetch
invalidateQueries_none(f) == f

\* queryClient.invalidateQueries: the list query is refetched, a fetch in
\* flight being cancelled and restarted
invalidateQueries(f) == [st |-> "req", wrapped |-> FALSE, data |-> << >>]

\* run-to-completion: the callbacks that follow a resolution (onSuccess or
\* onError, then onSettled) run before any other task
Quiet == \A j \in CapSlots : cap[j].pc \notin {"confirmed", "rolledback"}

\* mutate(anomalyId) with onMutate, the mutation kept in slot i
mutate(i, anomalyId) ==
  /\ observed' = i
  /\ LET m == onMutate(store, anomalyId) IN
       /\ store' = m.data
       /\ cap' = [cap EXCEPT ![i] = [pc |-> "pending", id |-> anomalyId,
                                     previousAnomalies |-> m.context.previousAnomalies,
                                     resp |-> NoResponse, toasts |-> 0]]
  /\ fetch' = cancelQueries(fetch)
  /\ pre' = [pre EXCEPT ![i] = store]
  /\ dirty' = Interleave(i)
  /\ last' = Other
  /\ UNCHANGED <<toast, confirmedIds>>
  /\ UNCHANGED serverVars
  /\ UNCHANGED apiVars
  /\ UNCHANGED pushVars
  /\ UNCHANGED orderVars
  /\ UNCHANGED notifyVars
  /\ UNCHANGED streamVars

\* the hook's mutate is called for any id, each call in a fresh slot
CaptureInvoke(i, anomalyId) ==
  /\ Quiet
  /\ cap[i].pc = "idle"
  /\ \A j \in CapSlots : j < i => cap[j].pc # "idle"
  /\ mutate(i, anomalyId)

\* AnomalyList: isCapturing && capturingId === anomaly.id, from the mutation
\* the observer tracks
isCapturing(id) ==
  /\ observed # 0
  /\ InFlight(cap[observed])
  /\ cap[observed].id = id

\* a click on the Capture button of the card of `id`: the list is rendered,
\* the button is enabled (record active, card not capturing) and handleCapture
\* calls mutate; the mutation takes a slot whose earlier mutation has settled
handleCapture(i, id) ==
  /\ Quiet
  /\ cap[i].pc \in {"idle", "settled"}
  /\ \A j \in CapSlots : j < i => cap[j].pc \notin {"idle", "settled"}
  /\ store.defined
  /\ HasId(store.list, id)
  /\ RecordOf(store.list, id).status = "active"
  /\ ~isCapturing(id)
  /\ mutate(i, id)

\* the capture route handles the request
CaptureServe(i, shouldFail) ==
  /\ Quiet
  /\ cap[i].pc = "pending"
  /\ LET r == POST(mockAnomalies, cap[i].id, shouldFail) IN
       /\ mockAnomalies' = r.list
       /\ cap' = [cap EXCEPT ![i].pc = "responded", ![i].resp = r.resp]
  /\ last' = Other
  /\ UNCHANGED <<store, fetch, toast, confirmedIds, pre, dirty, observed>>
  /\ UNCHANGED streamVars
  /\ UNCHANGED apiVars
  /\ UNCHANGED pushVars
  /\ UNCHANGED orderVars
  /\ UNCHANGED notifyVars

\* onSuccess or onError for the outcome `resp` of the mutation function
Resolution(i, resp) ==
  LET result == captureAnomalyApi(resp) IN
    /\ IF result.ok
         THEN /\ store' = store
              /\ toast' = SuccessToast(result)
              /\ cap' = [cap EXCEPT ![i].pc = "confirmed", ![i].resp = resp,
                                    ![i].toasts = IF SuccessToast(result) # NoToast
                                                    THEN @ + 1 ELSE @]
              /\ confirmedIds' = confirmedIds \cup {cap[i].id}
         ELSE /\ store' = Rollback(store, cap[i])
              /\ toast' = ErrorToast(result)
              /\ cap' = [cap EXCEPT ![i].pc = "rolledback", ![i].resp = resp,
                                    ![i].toasts = @ + 1]
              /\ confirmedIds' = confirmedIds
    /\ dirty' = Interleave(i)
    /\ last' = Other
    /\ UNCHANGED <<fetch, pre, observed>>
    /\ UNCHANGED serverVars
    /\ UNCHANGED apiVars
    /\ UNCHANGED pushVars
    /\ UNCHANGED orderVars
    /\ UNCHANGED notifyVars
    /\ UNCHANGED streamVars

\* the capture route's response reaches the client
CaptureResolve(i) ==
  /\ Quiet
  /\ cap[i].pc = "responded"
  /\ Resolution(i, cap[i].resp)

\* the call ends otherwise than with the capture route's response, whether
\* the route has handled the request or not
CaptureForeign(i, r) ==
  /\ Quiet
  /\ cap[i].pc \in {"pending", "responded"}
  /\ Resolution(i, r)

\* onSettled; the mutation's context is dropped with it
CaptureSettle(i) ==
  /\ cap[i].pc \in {"confirmed", "rolledback"}
  /\ cap' = [cap EXCEPT ![i].pc = "settled", ![i].id = Missing,
                        ![i].resp = NoResponse,
                        ![i].previousAnomalies = Undefined]
  /\ fetch' = invalidateQueries(fetch)
  /\ toast' = NoToast
  /\ pre' = [pre EXCEPT ![i] = Undefined]
  /\ dirty' = [dirty EXCEPT ![i] = FALSE]
  /\ last' = Other
  /\ UNCHANGED <<store, confirmedIds, observed>>
  /\ UNCHANGED serverVars
  /\ UNCHANGED apiVars
  /\ UNCHANGED pushVars
  /\ UNCHANGED orderVars
  /\ UNCHANGED notifyVars
  /\ UNCHANGED streamVars

----------------------------------------------------------------------------
(* The list fetch: useQuery(fetchAnomalies) against GET /api/anomalies *)

\* GET /api/anomalies: the body, a bare array or the {success, data} envelope
GET(list, wrapped) == [wrapped |-> wrapped, data |-> list]

\* fetchAnomalies: anomaliesArraySchema.parse(response)
fetchAnomalies(body) ==
  IF ~body.wrapped /\ anomaliesArraySchema(body.data)
    THEN [ok |-> TRUE, data |-> body.data]
    ELSE [ok |-> FALSE, data |-> << >>]

FetchServe(wrapped) ==
  /\ Quiet
  /\ fetch.st = "req"
  /\ LET body == GET(mockAnomalies, wrapped) IN
       fetch' = [st |-> "resp", wrapped |-> body.wrapped, data |-> body.data]
  /\ last' = Other
  /\ UNCHANGED store
  /\ UNCHANGED captureVars
  /\ UNCHANGED serverVars
  /\ UNCHANGED apiVars
  /\ UNCHANGED pushVars
  /\ UNCHANGED orderVars
  /\ UNCHANGED notifyVars
  /\ UNCHANGED streamVars

FetchResolve ==
  /\ Quiet
  /\ fetch.st = "resp"
  /\ LET r == fetchAnomalies(fetch) IN
       /\ store' = IF r.ok THEN Data(r.data) ELSE store
       /\ delivered' = IF r.ok THEN << >> ELSE delivered
       /\ notified' = IF r.ok THEN << >> ELSE notified
  /\ UNCHANGED notifyVars
  /\ fetch' = IdleFetch
  /\ dirty' = Interleave(0)
  /\ last' = Other
  /\ UNCHANGED <<cap, toast, confirmedIds, pre, observed>>
  /\ UNCHANGED serverVars
  /\ UNCHANGED apiVars
  /\ UNCHANGED pushVars
  /\ UNCHANGED streamVars

----------------------------------------------------------------------------
(* The push subscription: useAnomalyStream *)

Chans == 1..Len(channels)

NewChannel == [closed |-> FALSE]

\* variant of the updater that patches every record
MergeThreatLevel_all(old, event) ==
  IF ~old.defined THEN old
  ELSE Data([k \in DOMAIN old.list |->
               [old.list[k] EXCEPT !.threatLevel = event.newThreatLevel]])

\* variant of the updater that leaves a record at level critical as it is
MergeThreatLevel_keepCritical(old, event) ==
  IF ~old.defined THEN old
  ELSE Data([k \in DOMAIN old.list |->
               IF old.list[k].id = event.anomalyId /\ old.list[k].threatLevel # "critical"
                 THEN [old.list[k] EXCEPT !.threatLevel = event.newThreatLevel]
                 ELSE old.list[k]])

\* the updater of handleThreatLevelChange's setQueryData
MergeThreatLevel(old, event) ==
  IF ~old.defined THEN old
  ELSE Data([k \in DOMAIN old.list |->
               IF old.list[k].id = event.anomalyId
                 THEN [old.list[k] EXCEPT !.threatLevel = event.newThreatLevel]
                 ELSE old.list[k]])

\* variant of the message filter that skips the schema validation
Accepts_unvalidated(m) ==
  /\ m.json
  /\ m.type = "threat_level_change"

\* onmessage, after the isMounted guard: whether the event reaches handleThreatLevelChange
Accepts(m) ==
  /\ m.json
  /\ m.type = "threat_level_change"
  /\ threatLevelChangeEventSchema(m)

\* variant of the test that allows one more attempt
ShouldReconnect_inclusive(attempts) == attempts <= maxReconnectAttempts

\* variant of the test that never allows a reconnect
ShouldReconnect_never(attempts) == FALSE

\* onerror's test for scheduling a reconnect
ShouldReconnect(attempts) == attempts < maxReconnectAttempts

\* connectSSE's guard
CanConnect == isMounted /\ localEventSource = 0

\* the reconnect timer fires: if (isMounted) connectSSE()
TimerFire(t) ==
  /\ Quiet
  /\ t \in timers
  /\ timers' = timers \ {t}
  /\ IF CanConnect
       THEN /\ Len(channels) < MaxChannels
            /\ channels' = Append(channels, NewChannel)
            /\ localEventSource' = Len(channels) + 1
            /\ eventSourceRef' = Len(channels) + 1
            /\ channelsInRun' = channelsInRun + 1
       ELSE UNCHANGED <<channels, localEventSource, eventSourceRef, channelsInRun>>
  /\ last' = Step("timer", 0, NoMessage, FALSE)
  /\ UNCHANGED <<isMounted, localReconnectTimeout, localReconnectAttempts,
                 reconnectTimeoutRef, reconnectAttemptsRef, isConnected,
                 timerCount, reconnectsInRun, disconnected>>
  /\ UNCHANGED <<store, fetch>>
  /\ UNCHANGED captureVars
  /\ UNCHANGED serverVars
  /\ UNCHANGED apiVars
  /\ UNCHANGED pushVars
  /\ UNCHANGED orderVars
  /\ UNCHANGED notifyVars

\* variant of onopen that resets only the ref, not the counter the effect tests
ChannelOpen_refOnly(c) ==
  /\ Quiet
  /\ c \in Chans
  /\ IF isMounted
       THEN /\ reconnectAttemptsRef' = 0
            /\ isConnected' = TRUE
            /\ channelsInRun' = IF localEventSource = 0 THEN 0 ELSE 1
       ELSE UNCHANGED <<reconnectAttemptsRef, isConnected, channelsInRun>>
  /\ last' = Step("open", c, NoMessage, FALSE)
  /\ UNCHANGED <<isMounted, localEventSource, localReconnectTimeout, eventSourceRef,
                 reconnectTimeoutRef, channels, timers, timerCount, disconnected,
                 localReconnectAttempts, reconnectsInRun>>
  /\ UNCHANGED <<store, fetch>>
  /\ UNCHANGED captureVars
  /\ UNCHANGED serverVars
  /\ UNCHANGED apiVars
  /\ UNCHANGED pushVars
  /\ UNCHANGED orderVars
  /\ UNCHANGED notifyVars

\* channel c signals open: eventSource.onopen
ChannelOpen(c) ==
  /\ Quiet
  /\ c \in Chans
  /\ IF isMounted
       THEN /\ localReconnectAttempts' = 0
            /\ reconnectAttemptsRef' = 0
            /\ isConnected' = TRUE
            /\ reconnectsInRun' = 0
            /\ channelsInRun' = IF localEventSource = 0 THEN 0 ELSE 1
       ELSE UNCHANGED <<localReconnectAttempts, reconnectAttemptsRef, isConnected,
                        reconnectsInRun, channelsInRun>>
  /\ last' = Step("open", c, NoMessage, FALSE)
  /\ UNCHANGED <<isMounted, localEventSource, localReconnectTimeout, eventSourceRef,
                 reconnectTimeoutRef, channels, timers, timerCount, disconnected>>
  /\ UNCHANGED <<store, fetch>>
  /\ UNCHANGED captureVars
  /\ UNCHANGED serverVars
  /\ UNCHANGED apiVars
  /\ UNCHANGED pushVars
  /\ UNCHANGED orderVars
  /\ UNCHANGED notifyVars

\* eventSource.onmessage of channel c for the message m
onmessage(c, m) ==
  /\ Quiet
  /\ c \in Chans
  /\ IF isMounted /\ Accepts(m)
       THEN /\ store' = MergeThreatLevel(store, m)
            /\ dirty' = Interleave(0)
       ELSE UNCHANGED <<store, dirty>>
  /\ last' = Step("message", c, m, isMounted /\ Accepts(m))
  /\ UNCHANGED <<fetch, cap, toast, confirmedIds, pre, observed>>
  /\ UNCHANGED streamVars
  /\ UNCHANGED serverVars
  /\ UNCHANGED apiVars

\* channel c delivers a message
ChannelMessage(c, m) ==
  onmessage(c, m) /\ UNCHANGED pushVars /\ UNCHANGED orderVars /\ UNCHANGED notifyVars

MaxDelivered == 3

\* the messages of a delivery sequence: events of two levels for each id, and
\* the malformed ones
OrderMessages ==
  { Message(TRUE, "threat_level_change", id, l) : id \in Ids, l \in {"low", "critical"} }
  \cup MalformedMessages

\* the open first channel delivers m; the delivery and the invocation of
\* onThreatLevelChange are logged in order
Deliver(m) ==
  /\ ~channels[1].closed
  /\ Len(delivered) < MaxDelivered
  /\ onmessage(1, m)
  /\ delivered' = Append(delivered, m)
  /\ notified' = IF last'.callback THEN Append(notified, m) ELSE notified
  /\ UNCHANGED pushVars
  /\ UNCHANGED notifyVars

\* channel c signals an error: eventSource.onerror
ChannelError(c) ==
  /\ Quiet
  /\ c \in Chans
  /\ IF isMounted
       THEN /\ channels' = [channels EXCEPT ![c].closed = TRUE]
            /\ localEventSource' = 0
            /\ eventSourceRef' = 0
            /\ isConnected' = FALSE
            /\ IF ShouldReconnect(localReconnectAttempts)
                 THEN /\ timerCount < MaxTimers
                      /\ localReconnectAttempts' = localReconnectAttempts + 1
                      /\ reconnectAttemptsRef' = localReconnectAttempts + 1
                      /\ timerCount' = timerCount + 1
                      /\ timers' = timers \cup {timerCount + 1}
                      /\ localReconnectTimeout' = timerCount + 1
                      /\ reconnectTimeoutRef' = timerCount + 1
                      /\ reconnectsInRun' = reconnectsInRun + 1
                 ELSE UNCHANGED <<localReconnectAttempts, reconnectAttemptsRef,
                                  timerCount, timers, localReconnectTimeout,
                                  reconnectTimeoutRef, reconnectsInRun>>
       ELSE UNCHANGED <<channels, localEventSource, eventSourceRef, isConnected,
                        localReconnectAttempts, reconnectAttemptsRef, timerCount,
                        timers, localReconnectTimeout, reconnectTimeoutRef,
                        reconnectsInRun>>
  /\ last' = Step("error", c, NoMessage, FALSE)
  /\ UNCHANGED <<isMounted, channelsInRun, disconnected>>
  /\ UNCHANGED <<store, fetch>>
  /\ UNCHANGED captureVars
  /\ UNCHANGED serverVars
  /\ UNCHANGED apiVars
  /\ UNCHANGED pushVars
  /\ UNCHANGED orderVars
  /\ UNCHANGED notifyVars

\* variant of disconnect() that forgets the timer without clearing it
Disconnect_keepTimer ==
  /\ Quiet
  /\ timers' = timers
  /\ reconnectTimeoutRef' = 0
  /\ channels' = IF eventSourceRef # 0
                   THEN [channels EXCEPT ![eventSourceRef].closed = TRUE]
                   ELSE channels
  /\ eventSourceRef' = 0
  /\ reconnectAttemptsRef' = 0
  /\ isConnected' = FALSE
  /\ disconnected' = TRUE
  /\ last' = Step("disconnect", 0, NoMessage, FALSE)
  /\ UNCHANGED <<isMounted, localEventSource, localReconnectTimeout,
                 localReconnectAttempts, timerCount, reconnectsInRun, channelsInRun>>
  /\ UNCHANGED <<store, fetch>>
  /\ UNCHANGED captureVars
  /\ UNCHANGED serverVars
  /\ UNCHANGED apiVars
  /\ UNCHANGED pushVars
  /\ UNCHANGED orderVars
  /\ UNCHANGED notifyVars

\* variant of disconnect() that leaves the connected flag as it is
Disconnect_flagKept ==
  /\ Quiet
  /\ timers' = IF reconnectTimeoutRef # 0 THEN timers \ {reconnectTimeoutRef} ELSE timers
  /\ reconnectTimeoutRef' = 0
  /\ channels' = IF eventSourceRef # 0
                   THEN [channels EXCEPT ![eventSourceRef].closed = TRUE]
                   ELSE channels
  /\ eventSourceRef' = 0
  /\ reconnectAttemptsRef' = 0
  /\ disconnected' = TRUE
  /\ last' = Step("disconnect", 0, NoMessage, FALSE)
  /\ UNCHANGED <<isMounted, localEventSource, localReconnectTimeout, isConnected,
                 localReconnectAttempts, timerCount, reconnectsInRun, channelsInRun>>
  /\ UNCHANGED <<store, fetch>>
  /\ UNCHANGED captureVars
  /\ UNCHANGED serverVars
  /\ UNCHANGED apiVars
  /\ UNCHANGED pushVars
  /\ UNCHANGED orderVars
  /\ UNCHANGED notifyVars

\* disconnect()
Disconnect ==
  /\ Quiet
  /\ timers' = IF reconnectTimeoutRef # 0 THEN timers \ {reconnectTimeoutRef} ELSE timers
  /\ reconnectTimeoutRef' = 0
  /\ channels' = IF eventSourceRef # 0
                   THEN [channels EXCEPT ![eventSourceRef].closed = TRUE]
                   ELSE channels
  /\ eventSourceRef' = 0
  /\ reconnectAttemptsRef' = 0
  /\ isConnected' = FALSE
  /\ disconnected' = TRUE
  /\ last' = Step("disconnect", 0, NoMessage, FALSE)
  /\ UNCHANGED <<isMounted, localEventSource, localReconnectTimeout,
                 localReconnectAttempts, timerCount, reconnectsInRun, channelsInRun>>
  /\ UNCHANGED <<store, fetch>>
  /\ UNCHANGED captureVars
  /\ UNCHANGED serverVars
  /\ UNCHANGED apiVars
  /\ UNCHANGED pushVars
  /\ UNCHANGED orderVars
  /\ UNCHANGED notifyVars

\* variant of the cleanup that leaves the channel open
Unmount_leak ==
  /\ Quiet
  /\ isMounted
  /\ isMounted' = FALSE
  /\ timers' = IF localReconnectTimeout # 0
                 THEN timers \ {localReconnectTimeout} ELSE timers
  /\ eventSourceRef' = 0
  /\ reconnectTimeoutRef' = 0
  /\ isConnected' = FALSE
  /\ last' = Step("unmount", 0, NoMessage, FALSE)
  /\ UNCHANGED <<localEventSource, localReconnectTimeout, localReconnectAttempts,
                 reconnectAttemptsRef, timerCount, reconnectsInRun, channelsInRun,
                 disconnected, channels>>
  /\ UNCHANGED <<store, fetch>>
  /\ UNCHANGED captureVars
  /\ UNCHANGED serverVars
  /\ UNCHANGED apiVars
  /\ UNCHANGED pushVars
  /\ UNCHANGED orderVars
  /\ UNCHANGED notifyVars

\* the owner unmounts: the effect's cleanup
Unmount ==
  /\ Quiet
  /\ isMounted
  /\ isMounted' = FALSE
  /\ timers' = IF localReconnectTimeout # 0
                 THEN timers \ {localReconnectTimeout} ELSE timers
  /\ channels' = IF localEventSource # 0
                   THEN [channels EXCEPT ![localEventSource].closed = TRUE]
                   ELSE channels
  /\ eventSourceRef' = 0
  /\ reconnectTimeoutRef' = 0
  /\ isConnected' = FALSE
  /\ last' = Step("unmount", 0, NoMessage, FALSE)
  /\ UNCHANGED <<localEventSource, localReconnectTimeout, localReconnectAttempts,
                 reconnectAttemptsRef, timerCount, reconnectsInRun, channelsInRun,
                 disconnected>>
  /\ UNCHANGED <<store, fetch>>
  /\ UNCHANGED captureVars
  /\ UNCHANGED serverVars
  /\ UNCHANGED apiVars
  /\ UNCHANGED pushVars
  /\ UNCHANGED orderVars
  /\ UNCHANGED notifyVars

----------------------------------------------------------------------------
(* One call of apiClient, with its timeout timer *)

IdleCall == [pc |-> "idle", resp |-> NoResponse, timer |-> "none", result |-> ApiError("", 0, Missing)]

\* what fetch() can produce for the call apart from the abort
ApiResponses ==
  { Response("network", 0, FALSE, Missing, NoAnomaly, Missing) }
  \cup { Response("http", status, json, Missing, NoAnomaly, error) :
           status \in {200, 400, 404, 500, 502}, json \in BOOLEAN,
           error \in {Missing, "", "Anomaly not found"} }

\* apiClient is called: the abort timer is set and fetch() started
ApiCall ==
  /\ call.pc = "idle"
  /\ call' = [call EXCEPT !.pc = "waiting", !.timer = "set"]
  /\ last' = Other
  /\ UNCHANGED <<store, fetch>>
  /\ UNCHANGED captureVars
  /\ UNCHANGED serverVars
  /\ UNCHANGED streamVars
  /\ UNCHANGED pushVars
  /\ UNCHANGED orderVars
  /\ UNCHANGED notifyVars

\* the timeout elapses first: controller.abort() makes fetch() reject with AbortError
ApiTimeout ==
  /\ call.pc = "waiting"
  /\ call.timer = "set"
  /\ call' = [call EXCEPT !.pc = "received", !.timer = "fired",
                          !.resp = Response("abort", 0, FALSE, Missing, NoAnomaly, Missing)]
  /\ last' = Other
  /\ UNCHANGED <<store, fetch>>
  /\ UNCHANGED captureVars
  /\ UNCHANGED serverVars
  /\ UNCHANGED streamVars
  /\ UNCHANGED pushVars
  /\ UNCHANGED orderVars
  /\ UNCHANGED notifyVars

\* fetch() settles with a response or a transport failure
ApiReceive(r) ==
  /\ call.pc = "waiting"
  /\ call' = [call EXCEPT !.pc = "received", !.resp = r]
  /\ last' = Other
  /\ UNCHANGED <<store, fetch>>
  /\ UNCHANGED captureVars
  /\ UNCHANGED serverVars
  /\ UNCHANGED streamVars
  /\ UNCHANGED pushVars
  /\ UNCHANGED orderVars
  /\ UNCHANGED notifyVars

\* clearTimeout in the finally block
clearTimeout(timer) == IF timer = "set" THEN "cleared" ELSE timer

\* the call returns or throws; the finally block has run
ApiReturn ==
  /\ call.pc = "received"
  /\ call' = [call EXCEPT !.pc = "done", !.result = apiClient(call.resp),
                          !.timer = clearTimeout(call.timer)]
  /\ last' = Other
  /\ UNCHANGED <<store, fetch>>
  /\ UNCHANGED captureVars
  /\ UNCHANGED serverVars
  /\ UNCHANGED streamVars
  /\ UNCHANGED pushVars
  /\ UNCHANGED orderVars
  /\ UNCHANGED notifyVars

----------------------------------------------------------------------------
(* The stream route's interval and the delivery of its events *)

MaxOutbox == 2

ActiveIds(list) == { list[k].id : k \in { n \in DOMAIN list : list[n].status = "active" } }

\* a frame enqueued on the stream: the message as the client parses it, and
\* the previousThreatLevel the event carries
Frame(message, previousThreatLevel) ==
  [message |-> message, previousThreatLevel |-> previousThreatLevel]

\* variant of the interval callback that cancel() does not stop: on a
\* cancelled stream the list is written and the enqueue fails
ServerTick_uncancelled(id, newThreatLevel) ==
  /\ Quiet
  /\ Len(outbox) < MaxOutbox
  /\ IF ActiveIds(mockAnomalies) = {}
       THEN /\ outbox' = IF channels[1].closed THEN outbox
                         ELSE Append(outbox,
                                Frame(Message(TRUE, "info", Missing, Missing), Missing))
            /\ UNCHANGED mockAnomalies
       ELSE /\ id \in ActiveIds(mockAnomalies)
            /\ newThreatLevel # mockAnomalies[IndexOf(mockAnomalies, id)].threatLevel
            /\ mockAnomalies' = [mockAnomalies EXCEPT
                 ![IndexOf(mockAnomalies, id)].threatLevel = newThreatLevel]
            /\ outbox' = IF channels[1].closed THEN outbox
                         ELSE Append(outbox,
                                Frame(Message(TRUE, "threat_level_change", id, newThreatLevel),
                                      mockAnomalies[IndexOf(mockAnomalies, id)].threatLevel))
  /\ last' = Step("tick", 0, NoMessage, FALSE)
  /\ UNCHANGED <<store, fetch>>
  /\ UNCHANGED captureVars
  /\ UNCHANGED streamVars
  /\ UNCHANGED apiVars
  /\ UNCHANGED orderVars
  /\ UNCHANGED notifyVars

\* the interval callback of the stream of the first channel: nothing once the
\* client has cancelled the stream (isClosed); otherwise a random active
\* anomaly gets a random other threat level in mockAnomalies and the event is
\* enqueued, or an info message when no anomaly is active
ServerTick(id, newThreatLevel) ==
  /\ Quiet
  /\ Len(outbox) < MaxOutbox
  /\ IF channels[1].closed
       THEN UNCHANGED <<mockAnomalies, outbox>>
       ELSE IF ActiveIds(mockAnomalies) = {}
         THEN /\ outbox' = Append(outbox,
                             Frame(Message(TRUE, "info", Missing, Missing), Missing))
              /\ UNCHANGED mockAnomalies
         ELSE /\ id \in ActiveIds(mockAnomalies)
              /\ newThreatLevel # mockAnomalies[IndexOf(mockAnomalies, id)].threatLevel
              /\ mockAnomalies' = [mockAnomalies EXCEPT
                   ![IndexOf(mockAnomalies, id)].threatLevel = newThreatLevel]
              /\ outbox' = Append(outbox,
                   Frame(Message(TRUE, "threat_level_change", id, newThreatLevel),
                         mockAnomalies[IndexOf(mockAnomalies, id)].threatLevel))
  /\ last' = Step("tick", 0, NoMessage, FALSE)
  /\ UNCHANGED <<store, fetch>>
  /\ UNCHANGED captureVars
  /\ UNCHANGED streamVars
  /\ UNCHANGED apiVars
  /\ UNCHANGED orderVars
  /\ UNCHANGED notifyVars

\* the open first channel delivers the oldest enqueued frame
PushDeliver ==
  /\ outbox # << >>
  /\ ~channels[1].closed
  /\ onmessage(1, Head(outbox).message)
  /\ outbox' = Tail(outbox)
  /\ UNCHANGED orderVars
  /\ UNCHANGED notifyVars

----------------------------------------------------------------------------
(* The notification list: NotificationContainer *)

MaxShown == 4

MaxConfigured == 2

\* Array.prototype.slice(start): a negative start counts from the end, and
\* -0 is 0, the start of the array
slice(array, start) ==
  IF start < 0
    THEN SubSeq(array, (IF Len(array) + start > 0 THEN Len(array) + start ELSE 0) + 1,
                Len(array))
    ELSE SubSeq(array, start + 1, Len(array))

\* the updater of showNotification's setNotifications
AddNotification(prev, notification, max) ==
  LET newNotifications == Append(prev, notification) IN
    IF Len(newNotifications) > max
      THEN slice(newNotifications, -max)
      ELSE newNotifications

\* the container is rendered with a maxNotifications prop before anything is shown
Render(max) ==
  /\ shown = 0
  /\ maxNotifications' = max
  /\ last' = Other
  /\ UNCHANGED <<notifications, shown>>
  /\ UNCHANGED <<store, fetch>>
  /\ UNCHANGED captureVars
  /\ UNCHANGED serverVars
  /\ UNCHANGED streamVars
  /\ UNCHANGED apiVars
  /\ UNCHANGED pushVars
  /\ UNCHANGED orderVars

\* showNotification(type, message, options): a notification with a fresh id
showNotification ==
  /\ shown < MaxShown
  /\ shown' = shown + 1
  /\ notifications' = AddNotification(notifications, shown + 1, maxNotifications)
  /\ last' = Step("show", 0, NoMessage, FALSE)
  /\ UNCHANGED maxNotifications
  /\ UNCHANGED <<store, fetch>>
  /\ UNCHANGED captureVars
  /\ UNCHANGED serverVars
  /\ UNCHANGED streamVars
  /\ UNCHANGED apiVars
  /\ UNCHANGED pushVars
  /\ UNCHANGED orderVars

\* removeNotification(id), by the close button or the auto-hide timer
removeNotification(id) ==
  /\ notifications' = SelectSeq(notifications, LAMBDA n : n # id)
  /\ last' = Other
  /\ UNCHANGED <<maxNotifications, shown>>
  /\ UNCHANGED <<store, fetch>>
  /\ UNCHANGED captureVars
  /\ UNCHANGED serverVars
  /\ UNCHANGED streamVars
  /\ UNCHANGED apiVars
  /\ UNCHANGED pushVars
  /\ UNCHANGED orderVars

\* clearAll()
clearAll ==
  /\ notifications' = << >>
  /\ last' = Other
  /\ UNCHANGED <<maxNotifications, shown>>
  /\ UNCHANGED <<store, fetch>>
  /\ UNCHANGED captureVars
  /\ UNCHANGED serverVars
  /\ UNCHANGED streamVars
  /\ UNCHANGED apiVars
  /\ UNCHANGED pushVars
  /\ UNCHANGED orderVars

----------------------------------------------------------------------------
(* Specifications *)

\* the page has mounted: the list query is fetching, the subscription's effect
\* has run connectSSE() once, no capture has been invoked
Init ==
  /\ mockAnomalies \in InitialLists
  /\ store = Undefined
  /\ fetch = invalidateQueries(IdleFetch)
  /\ cap = [i \in CapSlots |-> IdleCapture]
  /\ toast = NoToast
  /\ isMounted = TRUE
  /\ localEventSource = 1
  /\ eventSourceRef = 1
  /\ localReconnectTimeout = 0
  /\ reconnectTimeoutRef = 0
  /\ localReconnectAttempts = 0
  /\ reconnectAttemptsRef = 0
  /\ isConnected = FALSE
  /\ channels = << NewChannel >>
  /\ timers = {}
  /\ timerCount = 0
  /\ confirmedIds = {}
  /\ pre = [i \in CapSlots |-> Undefined]
  /\ dirty = [i \in CapSlots |-> FALSE]
  /\ reconnectsInRun = 0
  /\ channelsInRun = 1
  /\ disconnected = FALSE
  /\ last = Other
  /\ call = IdleCall
  /\ outbox = << >>
  /\ delivered = << >>
  /\ notified = << >>
  /\ observed = 0
  /\ notifications = << >>
  /\ maxNotifications = 5
  /\ shown = 0

\* captures, list fetches and push events on the first channel
CaptureNext ==
  \/ \E i \in CapSlots, id \in Ids : CaptureInvoke(i, id)
  \/ \E i \in CapSlots, shouldFail \in BOOLEAN : CaptureServe(i, shouldFail)
  \/ \E i \in CapSlots, r \in ForeignResponses : CaptureForeign(i, r)
  \/ \E i \in CapSlots : CaptureResolve(i)
  \/ \E i \in CapSlots : CaptureSettle(i)
  \/ \E wrapped \in BOOLEAN : FetchServe(wrapped)
  \/ FetchResolve
  \/ \E m \in ValidMessages : ChannelMessage(1, m)

SpecCapture == Init /\ [][CaptureNext]_vars

\* the subscription against a transport that may deliver a callback of any
\* channel instance it created, closed or not (as the test double does)
StreamNext ==
  \/ \E t \in timers : TimerFire(t)
  \/ \E c \in Chans : ChannelOpen(c)
  \/ \E c \in Chans, m \in ValidMessages : ChannelMessage(c, m)
  \/ \E c \in Chans : ChannelError(c)
  \/ Disconnect
  \/ Unmount
  \/ FetchServe(FALSE)
  \/ FetchResolve

SpecStream == Init /\ [][StreamNext]_vars

\* the subscription against the EventSource contract: a closed channel
\* delivers nothing
LiveNext ==
  \/ \E t \in timers : TimerFire(t)
  \/ \E c \in Chans : ~channels[c].closed /\ ChannelOpen(c)
  \/ \E c \in Chans, m \in Messages : ~channels[c].closed /\ ChannelMessage(c, m)
  \/ \E c \in Chans : ~channels[c].closed /\ ChannelError(c)
  \/ Disconnect
  \/ Unmount
  \/ FetchServe(FALSE)
  \/ FetchResolve

SpecLive == Init /\ [][LiveNext]_vars

\* a scheduled reconnect timer that is not cleared fires
SpecLiveFair == SpecLive /\ WF_vars(\E t \in 1..MaxTimers : TimerFire(t))

\* calls of apiClient
ApiNext ==
  \/ ApiCall
  \/ ApiTimeout
  \/ \E r \in ApiResponses : ApiReceive(r)
  \/ ApiReturn

SpecApi == Init /\ [][ApiNext]_vars

\* the list query and the first channel against the stream route's interval
SyncNext ==
  \/ \E id \in Ids, l \in ThreatLevel : ServerTick(id, l)
  \/ PushDeliver
  \/ ChannelOpen(1)
  \/ FetchServe(FALSE)
  \/ FetchResolve

SpecSync == Init /\ [][SyncNext]_vars

\* sequences of messages on the first channel, with the list fetch
OrderNext ==
  \/ \E m \in OrderMessages : Deliver(m)
  \/ FetchServe(FALSE)
  \/ FetchResolve

SpecOrder == Init /\ [][OrderNext]_vars

\* captures started from the cards of the list, with the capture route and
\* the list fetch
ListNext ==
  \/ \E i \in CapSlots, id \in Ids : handleCapture(i, id)
  \/ \E i \in CapSlots, shouldFail \in BOOLEAN : CaptureServe(i, shouldFail)
  \/ \E i \in CapSlots : CaptureResolve(i)
  \/ \E i \in CapSlots : CaptureSettle(i)
  \/ FetchServe(FALSE)
  \/ FetchResolve

SpecList == Init /\ [][ListNext]_vars

\* the levels the interval draws in the server's runs
TickLevels == {"low", "critical"}

\* the server: capture requests against the stream route's interval, the
\* client closing the stream by unmounting
ServerNext ==
  \/ \E i \in CapSlots, id \in Ids : CaptureInvoke(i, id)
  \/ \E i \in CapSlots, shouldFail \in BOOLEAN : CaptureServe(i, shouldFail)
  \/ \E id \in Ids, l \in TickLevels : ServerTick(id, l)
  \/ PushDeliver
  \/ Unmount

SpecServer == Init /\ [][ServerNext]_vars

\* the notification list under show, remove and clearAll, for each limit
NotifyNext ==
  \/ \E max \in 0..MaxConfigured : Render(max)
  \/ showNotification
  \/ \E id \in 1..MaxShown : removeNotification(id)
  \/ clearAll

SpecNotify == Init /\ [][NotifyNext]_vars

Next ==
  \/ CaptureNext \/ StreamNext \/ ApiNext \/ SyncNext
  \/ OrderNext \/ ListNext \/ ServerNext \/ NotifyNext

Spec == Init /\ [][Next]_vars

----------------------------------------------------------------------------
(* Properties of the capture mutation, checked under SpecCapture *)

\* slot i holds a capture of a record that was ACTIVE in the store when the
\* capture was invoked, and no other writer has acted since
UndisturbedCapture(i) ==
  /\ cap[i].pc \in {"pending", "responded", "rolledback"}
  /\ ~dirty[i]
  /\ pre[i].defined
  /\ HasId(pre[i].list, cap[i].id)
  /\ RecordOf(pre[i].list, cap[i].id).status = "active"

\* C1: for a store holding X with status ACTIVE and a capture of X that no
\* other capture, push event or fetch result interleaves, the store has X
\* captured (every other record as before the invocation) from the optimistic
\* step until the remote call resolves; after a failed call the store is the
\* store of before the invocation: X active, every other record equal
C1_OptimisticThenRollback ==
  \A i \in CapSlots :
    UndisturbedCapture(i) =>
      /\ store.defined
      /\ Len(store.list) = Len(pre[i].list)
      /\ \A k \in DOMAIN store.list :
           LET before == pre[i].list[k]
               now == store.list[k] IN
           IF before.id # cap[i].id THEN now = before
           ELSE /\ now.id = before.id
                /\ now.name = before.name
                /\ now.threatLevel = before.threatLevel
                /\ now.location = before.location
                /\ now.status = IF InFlight(cap[i]) THEN "captured" ELSE "active"

\* a capture of an ACTIVE record, beside another record, has failed and was
\* rolled back with nothing interleaved
C1_Witness ==
  \E i \in CapSlots :
    /\ UndisturbedCapture(i)
    /\ cap[i].pc = "rolledback"
    /\ Len(pre[i].list) = 2
    /\ cap[i].resp.status = 500

\* the step is a step of the capture in slot i that writes the store: its
\* optimistic write, its confirmation or its rollback
CaptureStep(i) ==
  /\ cap[i].pc # cap'[i].pc
  /\ cap'[i].pc \in {"pending", "confirmed", "rolledback"}

\* C2: no step of a capture of X (optimistic write, confirmation, rollback)
\* changes any field of a record Y # X of the store, whatever other captures
\* and push events are interleaved with it
C2_IndependentIds ==
  [][ \A i \in CapSlots :
        CaptureStep(i) /\ store.defined =>
          /\ store'.defined
          /\ \A k \in DOMAIN store.list :
               store.list[k].id # cap'[i].id =>
                 /\ HasId(store'.list, store.list[k].id)
                 /\ RecordOf(store'.list, store.list[k].id) = store.list[k] ]_vars

\* C3: once the client has seen the capture of Y confirmed, the store never
\* shows Y with status ACTIVE again
C3_ConfirmedStaysCaptured ==
  \A y \in confirmedIds :
    store.defined /\ HasId(store.list, y) =>
      RecordOf(store.list, y).status # "active"

\* the outcome is a 2xx JSON body {success: true, anomaly} whose anomaly
\* passes the Anomaly schema
ValidSuccess(r) ==
  /\ r.kind = "http"
  /\ r.status >= 200 /\ r.status <= 299
  /\ r.json
  /\ r.success = "true"
  /\ r.anomaly.id # Missing /\ r.anomaly.name # Missing /\ r.anomaly.location # Missing
  /\ r.anomaly.threatLevel \in {"low", "medium", "high", "critical"}
  /\ r.anomaly.status \in {"active", "captured"}

\* the step resolves the capture in slot i
ResolutionStep(i) ==
  /\ cap[i].pc \in {"pending", "responded"}
  /\ cap'[i].pc \in {"confirmed", "rolledback"}

\* C4 as stated: the invocation ends CONFIRMED, the optimistic write kept,
\* exactly when the call resolves with a valid success body; after every other
\* outcome the store is the invocation's snapshot
C4_RestoredFromSnapshot ==
  [][ \A i \in CapSlots :
        ResolutionStep(i) =>
          /\ cap'[i].pc = "confirmed" <=> ValidSuccess(cap'[i].resp)
          /\ cap'[i].pc = "confirmed" => store' = store
          /\ cap'[i].pc = "rolledback" => store' = cap[i].previousAnomalies ]_vars

\* C4 (amended): the invocation ends CONFIRMED, the optimistic write kept,
\* exactly when the call resolves with a valid success body; after every other
\* outcome the store is the invocation's snapshot if the store held data when
\* the capture was invoked, and is left as it is if it held none
C4_OutcomeClassification ==
  [][ \A i \in CapSlots :
        ResolutionStep(i) =>
          /\ cap'[i].pc = "confirmed" <=> ValidSuccess(cap'[i].resp)
          /\ cap'[i].pc = "confirmed" => store' = store
          /\ cap'[i].pc = "rolledback" =>
               store' = IF cap[i].previousAnomalies.defined
                          THEN cap[i].previousAnomalies ELSE store ]_vars

\* a capture invoked on a store without data has failed with a 2xx body
\* {success: false, error} while the store held data
C4_Witness ==
  \E i \in CapSlots :
    /\ cap[i].pc = "rolledback"
    /\ cap[i].resp.status = 200
    /\ cap[i].resp.success = "false"
    /\ ~cap[i].previousAnomalies.defined
    /\ store.defined

----------------------------------------------------------------------------
(* Properties of the push subscription *)

\* the message is a threat_level_change event that passes the event schema
ValidEvent(m) ==
  /\ m.json
  /\ m.type = "threat_level_change"
  /\ m.anomalyId # Missing
  /\ m.newThreatLevel \in {"low", "medium", "high", "critical"}

\* the step delivers a message to the mounted subscription
Delivered == last'.act = "message" /\ isMounted

\* C5: a valid threat_level_change event for an id X of the store sets
\* X.threatLevel to the event's newThreatLevel and leaves X's id, name,
\* location and status and every other record unchanged; for an id absent
\* from the store, or an empty or undefined store, the store is unchanged
C5_PushMerge ==
  [][ Delivered /\ ValidEvent(last'.msg) =>
        /\ store'.defined = store.defined
        /\ Len(store'.list) = Len(store.list)
        /\ \A k \in DOMAIN store.list :
             LET before == store.list[k]
                 now == store'.list[k] IN
             IF before.id # last'.msg.anomalyId THEN now = before
             ELSE /\ now.id = before.id
                  /\ now.name = before.name
                  /\ now.location = before.location
                  /\ now.status = before.status
                  /\ now.threatLevel = last'.msg.newThreatLevel
        /\ ~HasId(store.list, last'.msg.anomalyId) => store' = store ]_vars

\* a valid event has raised the threat level of "1" beside another record
C5_Witness ==
  /\ last.act = "message"
  /\ last.callback
  /\ last.msg.anomalyId = "1"
  /\ store.defined
  /\ Len(store.list) = 2
  /\ RecordOf(store.list, "1").threatLevel = "critical"
  /\ RecordOf(store.list, "1").status = "active"

\* the subscription's own state, as the callbacks read and write it
subscriptionVars ==
  <<isMounted, localEventSource, localReconnectTimeout, localReconnectAttempts,
    eventSourceRef, reconnectTimeoutRef, reconnectAttemptsRef, isConnected,
    channels, timers, timerCount>>

\* C6: a message that is not JSON, or is a threat_level_change that fails the
\* schema, or has another type, leaves the store unchanged, the channel open
\* and the connected flag as it was, schedules no reconnect and invokes no
\* callback; a valid event that follows it is still merged
C6_MalformedTolerated ==
  [][ /\ Delivered /\ ~ValidEvent(last'.msg) =>
           /\ store' = store
           /\ subscriptionVars' = subscriptionVars
           /\ ~last'.callback
      /\ /\ last.act = "message" /\ ~ValidEvent(last.msg)
         /\ Delivered /\ ValidEvent(last'.msg) /\ last'.chan = last.chan
         /\ store.defined /\ HasId(store.list, last'.msg.anomalyId)
         => /\ last'.callback
            /\ RecordOf(store'.list, last'.msg.anomalyId).threatLevel
                 = last'.msg.newThreatLevel ]_vars

\* a threat_level_change event that fails the schema was delivered on an open,
\* connected channel, and the record it names kept its threat level
C6_Witness ==
  /\ last.act = "message"
  /\ isMounted
  /\ last.msg.type = "threat_level_change"
  /\ last.msg.newThreatLevel = "extreme"
  /\ ~channels[last.chan].closed
  /\ isConnected
  /\ store.defined
  /\ HasId(store.list, last.msg.anomalyId)
  /\ RecordOf(store.list, last.msg.anomalyId).threatLevel = "high"

\* C7: between two handled opens at most maxReconnectAttempts reconnects are
\* scheduled and at most maxReconnectAttempts + 1 channels created; an error
\* that finds maxReconnectAttempts reconnects scheduled schedules none
C7_ReconnectBound ==
  /\ [](/\ reconnectsInRun <= maxReconnectAttempts
        /\ channelsInRun <= maxReconnectAttempts + 1)
  /\ [][ last'.act = "error" /\ reconnectsInRun = maxReconnectAttempts =>
           /\ timers' = timers
           /\ timerCount' = timerCount
           /\ reconnectsInRun' = reconnectsInRun ]_vars

\* the error after the last allowed reconnect: nothing pending, no channel left
C7_Witness ==
  /\ last.act = "error"
  /\ reconnectsInRun = maxReconnectAttempts
  /\ channelsInRun = maxReconnectAttempts + 1
  /\ timers = {}
  /\ localEventSource = 0
  /\ \A c \in Chans : channels[c].closed

\* the step is a timer or a channel callback of the subscription
SubscriptionStep == last'.act \in {"timer", "open", "message", "error"}

\* C8: unmounting cancels the subscription's pending reconnect timer and
\* closes its channel; afterwards no timer and no open, message or error
\* callback creates a channel, writes the store, invokes the callback, sets
\* the connected flag or schedules a reconnect
C8_TeardownOnUnmount ==
  [][ /\ isMounted /\ ~isMounted' =>
           /\ localReconnectTimeout \notin timers'
           /\ localEventSource # 0 => channels'[localEventSource].closed
           /\ ~isConnected'
      /\ ~isMounted /\ SubscriptionStep =>
           /\ channels' = channels
           /\ store' = store
           /\ ~last'.callback
           /\ ~isConnected'
           /\ timers' \subseteq timers
           /\ timerCount' = timerCount ]_vars

\* after the unmount a valid event of the closed channel was delivered and
\* not merged
C8_Witness ==
  /\ ~isMounted
  /\ last.act = "message"
  /\ last.msg.anomalyId = "1"
  /\ channels[last.chan].closed
  /\ store.defined
  /\ HasId(store.list, "1")
  /\ RecordOf(store.list, "1").threatLevel = "high"

\* C9: disconnect() cancels the pending reconnect timer, closes the open
\* channel, resets the attempt counter and clears the connected flag; from
\* then on no open, message or error callback and no timer writes the store,
\* schedules a reconnect or creates a channel
C9_ExplicitDisconnect ==
  [][ /\ last'.act = "disconnect" =>
           /\ reconnectTimeoutRef \notin timers'
           /\ eventSourceRef # 0 => channels'[eventSourceRef].closed
           /\ reconnectAttemptsRef' = 0
           /\ ~isConnected'
      /\ disconnected /\ SubscriptionStep =>
           /\ store' = store
           /\ timers' \subseteq timers
           /\ Len(channels') = Len(channels) ]_vars

\* the step is a callback of a channel that an error closed and a reconnect
\* has replaced
StaleCallback ==
  /\ last'.act \in {"open", "message", "error"}
  /\ localEventSource # 0
  /\ last'.chan # localEventSource
  /\ channels[last'.chan].closed

\* C10: a callback of a channel that is no longer the current one writes no
\* store, changes neither the connected flag nor the attempt counter,
\* schedules no reconnect and neither drops nor closes the current channel
C10_StaleChannelGuard ==
  [][ StaleCallback =>
        /\ store' = store
        /\ isConnected' = isConnected
        /\ localReconnectAttempts' = localReconnectAttempts
        /\ timers' = timers
        /\ localEventSource' = localEventSource
        /\ channels' = channels ]_vars

----------------------------------------------------------------------------
(* Properties of the capture's settlement, notifications and server route *)

\* the capture in slot i has been resolved and not yet settled
Resolved(i) == cap[i].pc \in {"confirmed", "rolledback"}

\* C11: every capture, confirmed or rolled back, starts the refetch of the list
\* exactly once: the step after its confirmation or rollback is its
\* settlement, which leaves the list query fetching; a capture is settled only
\* from its confirmation or rollback, and never a second time
C11_ReconcileOnce ==
  [][ /\ \A i \in CapSlots :
           /\ Resolved(i) =>
                cap'[i].pc = "settled" /\ fetch'.st = "req" /\ store' = store
           /\ cap'[i].pc = "settled" /\ cap[i].pc # "settled" => Resolved(i)
           /\ cap[i].pc = "settled" => cap'[i].pc = "settled"
      /\ fetch.st # "req" /\ fetch'.st = "req" =>
           \E j \in CapSlots : Resolved(j) /\ cap'[j].pc = "settled" ]_vars

\* a capture that was rolled back has settled and the list is being refetched
C11_Witness ==
  \E i \in CapSlots :
    /\ cap[i].pc = "settled"
    /\ cap[i].toasts = 1
    /\ confirmedIds = {}
    /\ fetch.st = "req"
    /\ store.defined

\* C12: every capture emits exactly one notification: none before its
\* outcome, one after it; a success notification exactly when it is confirmed,
\* an error notification exactly when it is rolled back, carrying the error's
\* message, or the generic text when the message is empty
C12_OneNotification ==
  \A i \in CapSlots :
    /\ cap[i].toasts = IF cap[i].pc \in {"confirmed", "rolledback", "settled"} THEN 1 ELSE 0
    /\ cap[i].pc = "confirmed" =>
         /\ toast.type = "success"
         /\ toast.message = cap[i].resp.anomaly.name
    /\ cap[i].pc = "rolledback" =>
         LET message == captureAnomalyApi(cap[i].resp).message IN
         /\ toast.type = "error"
         /\ toast.message = IF message = "" THEN "Failed to capture anomaly" ELSE message
         /\ toast.message # ""

\* a capture was rolled back on an error with an empty message and the
\* generic text was shown
C12_Witness ==
  \E i \in CapSlots :
    /\ cap[i].pc = "rolledback"
    /\ cap[i].toasts = 1
    /\ cap[i].resp.error = ""
    /\ toast = [type |-> "error", message |-> "Failed to capture anomaly"]

\* the capture route rejected the request with a structured body
DomainError(r) ==
  /\ r.kind = "http"
  /\ r.status \in {400, 404, 500}
  /\ r.json
  /\ r.success = "false"
  /\ r.error \notin {Missing, ""}

\* C13: when the server rejects a capture with a {success: false, error} body
\* (404, 400, 500) the error notification shows the server's error string
\* unchanged and the store is rolled back to the invocation's snapshot (left
\* as it is when the store held no data at invocation)
C13_DomainErrorVerbatim ==
  [][ \A i \in CapSlots :
        ResolutionStep(i) /\ DomainError(cap'[i].resp) =>
          /\ cap'[i].pc = "rolledback"
          /\ toast' = [type |-> "error", message |-> cap'[i].resp.error]
          /\ store' = IF cap[i].previousAnomalies.defined
                        THEN cap[i].previousAnomalies ELSE store ]_vars

\* the server answered 400 "already captured" and the store went back to the
\* snapshot with the message shown
C13_Witness ==
  \E i \in CapSlots :
    /\ cap[i].pc = "rolledback"
    /\ cap[i].resp.status = 400
    /\ toast.message = "Anomaly is already captured"
    /\ cap[i].previousAnomalies.defined
    /\ store = cap[i].previousAnomalies

\* C14: no step of a capture (optimistic write, confirmation, rollback)
\* changes the threatLevel of any record of the store
C14_ThreatLevelKept ==
  [][ \A i \in CapSlots :
        CaptureStep(i) /\ store.defined =>
          /\ store'.defined
          /\ \A k \in DOMAIN store.list :
               /\ HasId(store'.list, store.list[k].id)
               /\ RecordOf(store'.list, store.list[k].id).threatLevel
                    = store.list[k].threatLevel ]_vars

\* the step is the capture route handling the request of slot i
ServeStep(i) == cap[i].pc = "pending" /\ cap'[i].pc = "responded"

\* C18: a capture request answered 404, 400 or 500 leaves the server's list
\* unchanged; one answered 200 changes only the status of the addressed
\* anomaly, to captured, and returns that record; 404 is the answer for an
\* unknown id and 400 for an anomaly already captured
C18_ServerCaptureFrame ==
  [][ \A i \in CapSlots :
        ServeStep(i) =>
          LET r == cap'[i].resp
              known == \E k \in DOMAIN mockAnomalies : mockAnomalies[k].id = cap[i].id IN
          /\ r.kind = "http" /\ r.status \in {200, 400, 404, 500}
          /\ r.status = 404 <=> ~known
          /\ r.status = 400 <=>
               \E k \in DOMAIN mockAnomalies :
                 mockAnomalies[k].id = cap[i].id /\ mockAnomalies[k].status = "captured"
          /\ r.status # 200 =>
               /\ mockAnomalies' = mockAnomalies
               /\ r.success = "false" /\ r.error # Missing
          /\ r.status = 200 =>
               /\ Len(mockAnomalies') = Len(mockAnomalies)
               /\ \A k \in DOMAIN mockAnomalies :
                    LET before == mockAnomalies[k]
                        now == mockAnomalies'[k] IN
                    IF before.id # cap[i].id THEN now = before
                    ELSE /\ now.id = before.id
                         /\ now.name = before.name
                         /\ now.threatLevel = before.threatLevel
                         /\ now.location = before.location
                         /\ before.status = "active"
                         /\ now.status = "captured"
                         /\ r.success = "true"
                         /\ r.anomaly = now ]_vars

\* the route has captured "2" beside "1" and answered 200 with the record
C18_Witness ==
  \E i \in CapSlots :
    /\ cap[i].pc = "responded"
    /\ cap[i].resp.status = 200
    /\ cap[i].id = "2"
    /\ Len(mockAnomalies) = 2
    /\ mockAnomalies[2].status = "captured"
    /\ mockAnomalies[1].status = "active"

\* C20: from the optimistic write of a capture of X until that capture's own
\* confirmation or rollback the store shows X captured
C20_OptimisticWindow ==
  \A i \in CapSlots :
    InFlight(cap[i]) /\ pre[i].defined /\ HasId(pre[i].list, cap[i].id) =>
      /\ store.defined
      /\ HasId(store.list, cap[i].id)
      /\ RecordOf(store.list, cap[i].id).status = "captured"

----------------------------------------------------------------------------
(* Properties of the list read and of the reconnect counter *)

\* the step is the list query resolving with the response it received
FetchResolveStep == fetch.st = "resp" /\ fetch'.st = "idle" /\ cap' = cap

\* every record of the list has the Anomaly shape
AllValid(list) ==
  \A k \in DOMAIN list :
    /\ list[k].id # Missing /\ list[k].name # Missing /\ list[k].location # Missing
    /\ list[k].threatLevel \in {"low", "medium", "high", "critical"}
    /\ list[k].status \in {"active", "captured"}

\* C15: when every record of the server's list is a valid Anomaly, the list
\* read through GET /api/anomalies and validated by the client is stored, equal
\* to the server's list
C15_BulkRead ==
  [][ FetchResolveStep /\ AllValid(fetch.data) => store' = Data(fetch.data) ]_vars

\* the reconnect allowance is used up and nothing is pending
Exhausted ==
  /\ localReconnectAttempts = maxReconnectAttempts
  /\ localEventSource = 0
  /\ timers = {}

\* C16: the counter that bounds the reconnects goes back to 0 only in a
\* channel open, and every open handled by the mounted subscription sets it to
\* 0; an error below the bound schedules a reconnect and counts it; once the
\* attempts are used up with nothing pending, no channel is created and the
\* connected flag stays false
C16_CounterReset ==
  [][ /\ localReconnectAttempts # 0 /\ localReconnectAttempts' = 0 => last'.act = "open"
      /\ last'.act = "open" /\ isMounted => localReconnectAttempts' = 0
      /\ last'.act = "error" /\ isMounted
           /\ localReconnectAttempts < maxReconnectAttempts =>
           /\ localReconnectAttempts' = localReconnectAttempts + 1
           /\ timerCount' = timerCount + 1
           /\ timers' = timers \cup {timerCount'}
      /\ Exhausted =>
           /\ Exhausted'
           /\ channels' = channels
           /\ ~isConnected /\ ~isConnected' ]_vars

\* after an open reset the counter, a new run of errors used the whole
\* allowance again: more reconnects were scheduled than one run allows
C16_Witness ==
  /\ timerCount > maxReconnectAttempts
  /\ localReconnectAttempts = maxReconnectAttempts
  /\ last.act = "error"
  /\ ~isConnected

----------------------------------------------------------------------------
(* Properties of apiClient and of the store against the server's levels *)

\* the call failed with an ApiError of the given status and code
Failed(e, status, code) == ~e.ok /\ e.status = status /\ e.code = code

C19_ThreatLevelsConsistent ==
  /\ isConnected /\ ~channels[1].closed /\ localEventSource = 1
  /\ fetch.st = "idle"
  /\ \A i \in CapSlots : ~InFlight(cap[i]) /\ ~Resolved(i)
  /\ outbox = << >>
  /\ store.defined
  => \A k \in DOMAIN mockAnomalies :
       /\ HasId(store.list, mockAnomalies[k].id)
       /\ RecordOf(store.list, mockAnomalies[k].id).threatLevel
            = mockAnomalies[k].threatLevel

----------------------------------------------------------------------------
(* Properties of the subscription's channels and of its connected flag *)

\* the channel instances that are not closed
LiveChannels == { c \in Chans : ~channels[c].closed }

\* C21: at most one channel instance is not closed in every reachable state
\* of the subscription, whatever opens, errors (repeated errors of one
\* instance included), timer firings, disconnect() calls and unmount
\* happen; a new channel is created only while every earlier one is closed,
\* and no channel is left open after the teardown
C21_SingleLiveChannel ==
  /\ [](Cardinality(LiveChannels) <= 1)
  /\ [](~isMounted => LiveChannels = {})
  /\ [][ Len(channels') > Len(channels) => LiveChannels = {} ]_vars

\* C22: while isConnected is true the subscriber holds a current channel
\* that is not closed and whose open was handled: the flag becomes true only
\* in the open callback of the held channel and the held channel is not
\* replaced while the flag is true; the flag is false after a channel error,
\* a disconnect() or the teardown, and does not become true while no channel
\* is held
C22_ConnectedFlag ==
  /\ [](isConnected =>
          /\ eventSourceRef # 0
          /\ eventSourceRef = localEventSource
          /\ ~channels[eventSourceRef].closed)
  /\ [][ /\ ~isConnected /\ isConnected' =>
              /\ last'.act = "open"
              /\ last'.chan = eventSourceRef
              /\ eventSourceRef' = eventSourceRef
         /\ isConnected /\ isConnected' => eventSourceRef' = eventSourceRef
         /\ last'.act \in {"error", "disconnect", "unmount"} => ~isConnected'
         /\ eventSourceRef = 0 => ~isConnected' ]_vars

\* the channel created by a reconnect has signalled open and the flag is true
C22_Witness ==
  /\ isConnected
  /\ last.act = "open"
  /\ last.chan = 2
  /\ eventSourceRef = 2
  /\ channels[1].closed
  /\ ~channels[2].closed


----------------------------------------------------------------------------
(* Order of the steps of one capture invocation *)

\* C23: within one capture invocation the snapshot is the store just before
\* the optimistic write, which is made at the invocation, before the server
\* handles the call; the confirmation or rollback comes only from a call in
\* flight; the settlement, which starts the refetch, comes only after the
\* confirmation or rollback and is final; and the server handles the call of
\* an invocation at most once (no retry)
C23_StepOrder ==
  [][ /\ \A i \in CapSlots :
           /\ cap[i].pc = "idle" /\ cap'[i].pc # "idle" =>
                /\ cap'[i].pc = "pending"
                /\ cap'[i].previousAnomalies = store
                /\ store' = OptimisticUpdate(store, cap'[i].id)
                /\ mockAnomalies' = mockAnomalies
           /\ cap[i].pc # "responded" /\ cap'[i].pc = "responded" => cap[i].pc = "pending"
           /\ cap[i].pc = "responded" =>
                cap'[i].pc \in {"responded", "confirmed", "rolledback"}
           /\ ~Resolved(i) /\ cap'[i].pc \in {"confirmed", "rolledback"} =>
                InFlight(cap[i])
           /\ cap[i].pc # "settled" /\ cap'[i].pc = "settled" =>
                Resolved(i) /\ fetch'.st = "req" /\ store' = store
           /\ cap[i].pc = "settled" => cap'[i] = cap[i]
      /\ mockAnomalies' # mockAnomalies => \E j \in CapSlots : ServeStep(j) ]_vars

\* the first capture went through all its steps: invoked, served, confirmed,
\* settled, with the refetch started
C23_Witness ==
  /\ cap[1].pc = "settled"
  /\ cap[2].pc = "idle"
  /\ confirmedIds = {"1"}
  /\ fetch.st = "req"
  /\ store.defined
  /\ HasId(store.list, "1")
  /\ RecordOf(store.list, "1").status = "captured"
  /\ RecordOf(mockAnomalies, "1").status = "captured"


----------------------------------------------------------------------------
(* Order of the push events *)

\* the valid events for X among the messages delivered
EventsFor(X) == SelectSeq(delivered, LAMBDA m : ValidEvent(m) /\ m.anomalyId = X)

\* C24: after any sequence of messages delivered since the list fetch last
\* wrote the store, every record X of the store has the newThreatLevel of the
\* last valid threat_level_change event delivered for X, or the level the
\* fetch wrote when none was delivered, and onThreatLevelChange has been
\* invoked once for each valid event, in the order of delivery
C24_DeliveryOrder ==
  /\ notified = SelectSeq(delivered, ValidEvent)
  /\ store.defined =>
       \A k \in DOMAIN store.list :
         LET X == store.list[k].id IN
           store.list[k].threatLevel =
             IF EventsFor(X) = << >>
               THEN RecordOf(mockAnomalies, X).threatLevel
               ELSE EventsFor(X)[Len(EventsFor(X))].newThreatLevel

\* two events for the same record were delivered, critical then low, with a
\* malformed message between them, and the record shows low
C24_Witness ==
  /\ Len(delivered) = 3
  /\ delivered[1] = Message(TRUE, "threat_level_change", "1", "critical")
  /\ ~ValidEvent(delivered[2])
  /\ delivered[3] = Message(TRUE, "threat_level_change", "1", "low")
  /\ Len(notified) = 2
  /\ store.defined
  /\ HasId(store.list, "1")
  /\ RecordOf(store.list, "1").threatLevel = "low"


----------------------------------------------------------------------------
(* Reconnect after an error *)

\* the subscription waits for its reconnect timer, n channels created so far
AwaitingReconnect(n) ==
  /\ isMounted
  /\ ~disconnected
  /\ localEventSource = 0
  /\ localReconnectTimeout \in timers
  /\ Len(channels) = n

\* C25: an error handled while the subscription is mounted and fewer than
\* maxReconnectAttempts attempts are used schedules a reconnect timer; while
\* the subscription stays mounted and disconnect() is not called, the timer
\* eventually fires and a new channel is created; and from the error on the
\* connected flag is false until an open callback sets it
C25_ReconnectLiveness ==
  /\ [][ last'.act = "error" /\ isMounted
           /\ localReconnectAttempts < maxReconnectAttempts =>
             /\ timerCount' = timerCount + 1
             /\ localReconnectTimeout' = timerCount'
             /\ localReconnectTimeout' \in timers'
             /\ localEventSource' = 0 ]_vars
  /\ \A n \in 1..(MaxChannels - 1) :
       AwaitingReconnect(n) ~> (Len(channels) > n \/ ~isMounted \/ disconnected)
  /\ [](last.act = "error" /\ isMounted => ~isConnected)
  /\ [][ ~isConnected /\ isConnected' => last'.act = "open" ]_vars

\* the reconnect timer of the first error has fired and created the second
\* channel, which has not opened yet
C25_Witness ==
  /\ last.act = "timer"
  /\ isMounted
  /\ ~disconnected
  /\ Len(channels) = 2
  /\ localEventSource = 2
  /\ channels[1].closed
  /\ ~channels[2].closed
  /\ ~isConnected
  /\ timers = {}


----------------------------------------------------------------------------
(* Captures started from the list *)

\* C26: captures started from the cards never overlap on one id: no two
\* captures of the same anomaly are in flight together, whatever captures of
\* other ids, rollbacks and refetch results interleave
C26_OneCapturePerId ==
  \A i, j \in CapSlots :
    i # j /\ InFlight(cap[i]) /\ InFlight(cap[j]) => cap[i].id # cap[j].id


----------------------------------------------------------------------------
(* Properties of the server's list under capture requests and stream ticks *)

\* C27: in the server's list no status goes from captured back to active,
\* under capture requests and stream ticks; a capture request is answered
\* with success only for an anomaly that is active, which it marks captured,
\* and every request for an anomaly already captured is answered 400
C27_ServerCaptureOnce ==
  [][ /\ \A k \in DOMAIN mockAnomalies :
           /\ mockAnomalies'[k].id = mockAnomalies[k].id
           /\ mockAnomalies[k].status = "captured" =>
                mockAnomalies'[k].status = "captured"
      /\ \A i \in CapSlots :
           ServeStep(i) /\ HasId(mockAnomalies, cap[i].id) =>
             LET before == RecordOf(mockAnomalies, cap[i].id).status IN
               /\ cap'[i].resp.status = 200 =>
                    /\ before = "active"
                    /\ RecordOf(mockAnomalies', cap[i].id).status = "captured"
               /\ before = "captured" =>
                    /\ cap'[i].resp.status = 400
                    /\ cap'[i].resp.success = "false" ]_vars

\* two requests for the same anomaly were answered, the first with success
\* and the second with 400, and a tick has changed a level in between or since
C27_Witness ==
  /\ cap[1].id = "1"
  /\ cap[2].id = "1"
  /\ cap[1].resp.status = 200
  /\ cap[2].resp.status = 400
  /\ RecordOf(mockAnomalies, "1").status = "captured"
  /\ RecordOf(mockAnomalies, "1").threatLevel # "high"


\* the step is a run of the stream route's interval callback
TickStep == last'.act = "tick"

\* the records of the server's list that the step changes
Changed == { k \in DOMAIN mockAnomalies : mockAnomalies'[k] # mockAnomalies[k] }

----------------------------------------------------------------------------
(* disconnect() called again *)

\* C28: after disconnect() the hook holds no channel and no pending
\* reconnect timer, its attempt counter is 0 and the connected flag is false;
\* a second disconnect() right after the first leaves every variable as it
\* is, so it closes no channel and cancels no timer
C28_DisconnectIdempotent ==
  [][ /\ last'.act = "disconnect" =>
           /\ eventSourceRef' = 0
           /\ reconnectTimeoutRef' = 0
           /\ timers' = {}
           /\ reconnectAttemptsRef' = 0
           /\ ~isConnected'
           /\ \A c \in Chans : channels'[c].closed
      /\ last.act = "disconnect" /\ last'.act = "disconnect" => vars' = vars ]_vars

\* disconnect() was called while the reconnect timer of the first error was
\* pending: the timer is cancelled and no second channel was ever created
C28_Witness ==
  /\ last.act = "disconnect"
  /\ isMounted
  /\ timerCount = 1
  /\ timers = {}
  /\ Len(channels) = 1
  /\ channels[1].closed
  /\ eventSourceRef = 0
  /\ reconnectAttemptsRef = 0
  /\ localReconnectAttempts = 1
  /\ ~isConnected


----------------------------------------------------------------------------
(* Bound of the notification list *)

\* C30: the notification list never holds more than maxNotifications
\* entries, for every limit from 0 up, after any sequence of show, remove
\* and clearAll; a show that would exceed the limit keeps the newest
\* maxNotifications entries in order
C30_NotificationBound ==
  /\ [](Len(notifications) <= maxNotifications)
  /\ [][ last'.act = "show" =>
           LET all == Append(notifications, shown') IN
             notifications' =
               SubSeq(all,
                      (IF Len(all) > maxNotifications
                         THEN Len(all) - maxNotifications ELSE 0) + 1,
                      Len(all)) ]_vars

====
